---- MODULE Spec2Model ----
(***************************************************************************)
(* The usage-fetch pipeline of the claude-usage extension                  *)
(* (src/extension.ts): credential formatting, the __cf_bm cookie cache and *)
(* its acquisition, and the three-strategy request dispatcher.             *)
(*                                                                         *)
(* Strings are TLA+ strings; the JavaScript string methods the code uses   *)
(* (trim, includes, split, substring, match) are operators computed        *)
(* character by character.                                                 *)
(***************************************************************************)
EXTENDS Integers, Sequences, FiniteSets, TLC

-----------------------------------------------------------------------------
(* Program constants (src/extension.ts:16-19).                             *)

CF_BM_COOKIE_CACHE_TTL_MS == 5 * 60 * 1000
REQUEST_TIMEOUT_MS == 10000
ERROR_MESSAGE_MAX_LENGTH == 200
ERROR_DETAILS_MAX_LENGTH == 500

-----------------------------------------------------------------------------
(* Bounds of the model.                                                    *)

\* longest raw credential string enumerated for formatSessionKeyCookie
MaxLen == 5
\* how many times formatSessionKeyCookie is applied in a row
MaxApply == 2

-----------------------------------------------------------------------------
(* JavaScript string primitives.                                           *)

\* String.prototype.includes(m)
Includes(s, m) ==
  \E i \in 1..(Len(s) - Len(m) + 1) : SubSeq(s, i, i + Len(m) - 1) = m

\* index of the first occurrence of m in s, 0 when there is none
IndexOf(s, m) ==
  IF Includes(s, m)
  THEN CHOOSE i \in 1..(Len(s) - Len(m) + 1) :
         /\ SubSeq(s, i, i + Len(m) - 1) = m
         /\ \A j \in 1..(i - 1) : SubSeq(s, j, j + Len(m) - 1) # m
  ELSE 0

\* String.prototype.substring(0, n)
Substring0(s, n) == IF Len(s) <= n THEN s ELSE SubSeq(s, 1, n)

\* the characters String.prototype.trim strips (those the inputs can hold)
IsWhiteSpace(c) == c \in {" ", "\t", "\n", "\r"}

RECURSIVE TrimStart(_)
TrimStart(s) ==
  IF Len(s) > 0 /\ IsWhiteSpace(SubSeq(s, 1, 1))
  THEN TrimStart(SubSeq(s, 2, Len(s)))
  ELSE s

RECURSIVE TrimEnd(_)
TrimEnd(s) ==
  IF Len(s) > 0 /\ IsWhiteSpace(SubSeq(s, Len(s), Len(s)))
  THEN TrimEnd(SubSeq(s, 1, Len(s) - 1))
  ELSE s

\* String.prototype.trim()
Trim(s) == TrimEnd(TrimStart(s))

\* number of occurrences of the one-character string c in s
CountChar(s, c) == Cardinality({i \in 1..Len(s) : SubSeq(s, i, i) = c})

\* s.split(c).length for a one-character separator
SplitLength(s, c) == CountChar(s, c) + 1

-----------------------------------------------------------------------------
(* Credential Formatter (src/extension.ts:35-41).                          *)

\* a fault of line 37: two '=' still count as a bare token
formatSessionKeyCookie_TwoEquals(sessionKey) ==
  LET trimmed == Trim(sessionKey)
  IN  IF ~Includes(trimmed, ";") /\ SplitLength(trimmed, "=") <= 3
      THEN "sessionKey=" \o trimmed
      ELSE trimmed

\* a fault of line 36: the input is not trimmed
formatSessionKeyCookie_NoTrim(sessionKey) ==
  IF ~Includes(sessionKey, ";") /\ SplitLength(sessionKey, "=") <= 2
  THEN "sessionKey=" \o sessionKey
  ELSE sessionKey

formatSessionKeyCookie(sessionKey) ==
  LET trimmed == Trim(sessionKey)
  IN  IF ~Includes(trimmed, ";") /\ SplitLength(trimmed, "=") <= 2
      THEN "sessionKey=" \o trimmed
      ELSE trimmed

-----------------------------------------------------------------------------
(* Parsing helpers.                                                        *)

\* An optional value: <<>> is JavaScript's null/undefined, <<v>> is v.
None == <<>>
Some(v) == <<v>>

\* JavaScript truthiness of an optional string: null and "" are falsy.
Truthy(o) == o # None /\ o[1] # ""

\* cookie.match(/__cf_bm=([^;]+)/): the first place where "__cf_bm=" is
\* followed by at least one character other than ';'; the capture is the
\* longest run of such characters.  None when there is no match.
CfBmMatchAt(cookie, i) ==
  /\ i + 8 <= Len(cookie)
  /\ SubSeq(cookie, i, i + 7) = "__cf_bm="
  /\ SubSeq(cookie, i + 8, i + 8) # ";"

CfBmMatch(cookie) ==
  IF \E i \in 1..Len(cookie) : CfBmMatchAt(cookie, i)
  THEN LET i    == CHOOSE i \in 1..Len(cookie) :
                     /\ CfBmMatchAt(cookie, i)
                     /\ \A j \in 1..(i - 1) : ~CfBmMatchAt(cookie, j)
           rest == SubSeq(cookie, i + 8, Len(cookie))
           semi == IndexOf(rest, ";")
       IN  Some(IF semi = 0 THEN rest ELSE SubSeq(rest, 1, semi - 1))
  ELSE None

\* the first element of the array of cookies that matches, as the loops of
\* lines 80-87 and 109-116 find it
RECURSIVE FirstCfBm(_)
FirstCfBm(cookies) ==
  IF cookies = <<>> THEN None
  ELSE IF CfBmMatch(Head(cookies)) # None THEN CfBmMatch(Head(cookies))
  ELSE FirstCfBm(Tail(cookies))

\* s.split(',').map(c => c.trim())
RECURSIVE SplitCommaTrim(_)
SplitCommaTrim(s) ==
  LET i == IndexOf(s, ",")
  IN  IF i = 0 THEN <<Trim(s)>>
      ELSE <<Trim(SubSeq(s, 1, i - 1))>> \o SplitCommaTrim(SubSeq(s, i + 1, Len(s)))

-----------------------------------------------------------------------------
(* Cookie header of a request (src/extension.ts:22-32, 410).               *)

\* getStandardHeaders(cookieValue)["Cookie"]; the other headers are fixed
getStandardHeaders(cookieValue) == [Cookie |-> cookieValue]

\* a fault of line 410: the template is filled without testing cfBmCookie
CombineCookies_Unchecked(cfBm, sessionKeyCookie) ==
  (IF cfBm = None THEN "null" ELSE cfBm[1]) \o "; " \o sessionKeyCookie

\* line 410: __cf_bm (if available) + sessionKey
CombineCookies(cfBm, sessionKeyCookie) ==
  IF Truthy(cfBm) THEN cfBm[1] \o "; " \o sessionKeyCookie ELSE sessionKeyCookie

-----------------------------------------------------------------------------
(* What the remote does with one request: it answers with a status and a   *)
(* body, or the client library rejects with an error of some message.      *)

Response(status, text) == [type |-> "response", status |-> status, text |-> text]
Rejection(message) == [type |-> "error", status |-> 0, text |-> message]

\* response.ok, and the tests of lines 451 and 465
IsOk(status) == status >= 200 /\ status < 300

\* Whether JSON.parse accepts the text.  The bodies of the model are a JSON
\* object or no JSON at all, so an object's braces decide.
IsJson(text) ==
  LET t == Trim(text)
  IN  Len(t) >= 2 /\ SubSeq(t, 1, 1) = "{" /\ SubSeq(t, Len(t), Len(t)) = "}"

\* JSON.stringify(JSON.parse(text)) for a text IsJson accepts: the same
\* tokens without the white space between them (none of the model's bodies
\* holds an escaped quote, a number in another notation or a duplicate key).
\* A character is inside a string literal when an odd number of quotes
\* precedes it.
InString(text, i) ==
  Cardinality({j \in 1..(i - 1) : SubSeq(text, j, j) = "\""}) % 2 = 1

RECURSIVE Compact(_, _, _)
Compact(text, lo, hi) ==
  IF lo > hi THEN ""
  ELSE IF lo = hi
       THEN IF IsWhiteSpace(SubSeq(text, lo, lo)) /\ ~InString(text, lo)
            THEN "" ELSE SubSeq(text, lo, lo)
       ELSE LET mid == (lo + hi) \div 2
            IN  Compact(text, lo, mid) \o Compact(text, mid + 1, hi)

JsonStringify(text) == Compact(text, 1, Len(text))

\* The message of the SyntaxError JSON.parse throws on a text that is no
\* JSON: the wording depends on the version of the JavaScript engine.
JsonErrorMessages(text) ==
  IF text = "" THEN {"Unexpected end of JSON input"}
  ELSE { "Unexpected token " \o SubSeq(text, 1, 1) \o " in JSON at position 0",
         "Unexpected token '" \o SubSeq(text, 1, 1) \o "', \""
            \o Substring0(text, 10)
            \o (IF Len(text) > 10 THEN "\"... is not valid JSON"
                ELSE "\" is not valid JSON") }

\* new Error(`HTTP ${status}: ${excerpt.substring(0, ERROR_MESSAGE_MAX_LENGTH)}`)
HttpErrorMessage(status, excerpt) ==
  "HTTP " \o ToString(status) \o ": " \o Substring0(excerpt, ERROR_MESSAGE_MAX_LENGTH)

\* The outcomes of a strategy: a payload it returns or a message it throws.
Returned(data) == [ok |-> TRUE, value |-> data]
Thrown(message) == [ok |-> FALSE, value |-> message]

\* Method 1, native fetch (lines 418-440): the status is tested first, the
\* body of a 2xx response is parsed after.
MethodFetch(r) ==
  IF r.type = "error" THEN {Thrown(r.text)}
  ELSE IF ~IsOk(r.status) THEN {Thrown(HttpErrorMessage(r.status, r.text))}
  ELSE IF IsJson(r.text) THEN {Returned(JsonStringify(r.text))}
  ELSE {Thrown(m) : m \in JsonErrorMessages(r.text)}

\* Method 2, undici (lines 443-456): the body is parsed before the status
\* is looked at.
MethodUndici(r) ==
  IF r.type = "error" THEN {Thrown(r.text)}
  ELSE IF ~IsJson(r.text) THEN {Thrown(m) : m \in JsonErrorMessages(r.text)}
  ELSE IF IsOk(r.status) THEN {Returned(JsonStringify(r.text))}
  ELSE {Thrown(HttpErrorMessage(r.status, JsonStringify(r.text)))}

\* Method 3, axios with validateStatus: () => true (lines 459-471): the
\* data is the parsed body, or the body as a string when it is no JSON.
MethodAxios(r) ==
  LET responseData == IF IsJson(r.text) THEN JsonStringify(r.text) ELSE r.text
  IN  IF r.type = "error" THEN {Thrown(r.text)}
      ELSE IF IsOk(r.status) THEN {Returned(responseData)}
      ELSE {Thrown(HttpErrorMessage(r.status, responseData))}

\* const methods = [fetch, undici, axios] (lines 416-472)
NumMethods == 3

RunMethod(k, r) ==
  CASE k = 1 -> MethodFetch(r)
    [] k = 2 -> MethodUndici(r)
    [] k = 3 -> MethodAxios(r)

-----------------------------------------------------------------------------
(* The classification of a thrown error (lines 481-496 and 500-515).       *)

\* lines 484-485 and 504-505
IsCloudflareChallenge(errorMsg) ==
  \/ Includes(errorMsg, "Just a moment")
  \/ Includes(errorMsg, "cf-browser-verification")
  \/ Includes(errorMsg, "challenge-platform")
  \/ Includes(errorMsg, "403")

\* lines 484-492: whether the loop goes on to the next method
TryNextMethod(errorMsg) ==
  \/ IsCloudflareChallenge(errorMsg)
  \/ ~Includes(errorMsg, "HTTP")

\* lines 506-512; "!!" stands for the two UTF-16 units of the warning sign
CloudflareHelp ==
  "\n\n!! Cloudflare bot protection detected.\n\n"
  \o "This is a known limitation - Cloudflare blocks automated requests based on TLS fingerprinting.\n"
  \o "Postman works because it uses a different HTTP client (libcurl) that Cloudflare trusts.\n\n"
  \o "Possible solutions:\n"
  \o "1. Use a fresh Cookie header from Postman (__cf_bm cookie expires quickly)\n"
  \o "2. Use a proxy service that can handle Cloudflare challenges\n"
  \o "3. Contact Claude.ai to request API access or whitelisting"

\* a fault of lines 504-515: the remediation block is appended in every case
ExhaustedMessage_HelpAlways(lastError) ==
  LET errorMsg == IF Truthy(lastError) THEN lastError[1] ELSE "Unknown error"
  IN  errorMsg \o CloudflareHelp

\* a fault of lines 504-515: the raw detail is appended in every case
ExhaustedMessage_Raw(lastError) ==
  LET errorMsg == IF Truthy(lastError) THEN lastError[1] ELSE "Unknown error"
  IN  errorMsg \o Substring0(errorMsg, ERROR_DETAILS_MAX_LENGTH)

\* lines 500-517: the message of the error thrown when every method failed
ExhaustedMessage(lastError) ==
  LET errorMsg     == IF Truthy(lastError) THEN lastError[1] ELSE "Unknown error"
      errorDetails == errorMsg
      errorBody    == IF IsCloudflareChallenge(errorMsg) THEN CloudflareHelp
                      ELSE Substring0(errorMsg, ERROR_DETAILS_MAX_LENGTH)
  IN  errorDetails \o errorBody

-----------------------------------------------------------------------------
(* JavaScript values and numbers, as far as the rendering reads them.      *)

\* a JavaScript number: finite (the fraction n/d), NaN, Infinity or -Infinity
Number(k, n, d) == [k |-> k, n |-> n, d |-> d]
Finite(n, d) == Number("finite", n, d)
NaN == Number("NaN", 0, 1)
Infinity == Number("Infinity", 0, 1)
MinusInfinity == Number("-Infinity", 0, 1)

\* a JavaScript value: its typeof-like tag t, its text s (the characters of
\* a string, the JSON text of an object) and its number num
JsValue(t, s, num) == [t |-> t, s |-> s, num |-> num]
Undefined == JsValue("undefined", "", NaN)
Null == JsValue("null", "", NaN)
JsBoolean(b) == JsValue("boolean", IF b THEN "true" ELSE "false", NaN)
JsNumber(num) == JsValue("number", "", num)
JsString(s) == JsValue("string", s, NaN)
JsObject(text) == JsValue("object", text, NaN)

\* ToBoolean(v), as `!five` and `!five.resets_at` apply it
JsTruthy(v) ==
  CASE v.t \in {"undefined", "null"} -> FALSE
    [] v.t = "boolean" -> v.s = "true"
    [] v.t = "number" -> v.num.k \in {"Infinity", "-Infinity"}
                           \/ (v.num.k = "finite" /\ v.num.n # 0)
    [] v.t = "string" -> v.s # ""
    [] v.t = "object" -> TRUE

DigitOf(c) == CHOOSE d \in 0..9 : ToString(d) = c
IsDigit(c) == \E d \in 0..9 : ToString(d) = c

\* the value of a string of decimal digits, 0 for the empty string
RECURSIVE DigitsValue(_)
DigitsValue(s) ==
  IF s = "" THEN 0
  ELSE 10 * DigitsValue(SubSeq(s, 1, Len(s) - 1)) + DigitOf(SubSeq(s, Len(s), Len(s)))

\* the largest decimal exponent of a finite double
MaxDoubleExponent == 308

\* The number JSON.parse reads from a number token: sign, digits, fraction
\* and a non-negative exponent.  A non-zero mantissa with an exponent beyond
\* the range of a double is Infinity.
ParseNumber(tok) ==
  LET neg  == SubSeq(tok, 1, 1) = "-"
      body == IF neg THEN SubSeq(tok, 2, Len(tok)) ELSE tok
      e    == IndexOf(body, "e")
      mant == IF e = 0 THEN body ELSE SubSeq(body, 1, e - 1)
      exp  == IF e = 0 THEN 0 ELSE DigitsValue(SubSeq(body, e + 1, Len(body)))
      dot  == IndexOf(mant, ".")
      int  == IF dot = 0 THEN mant ELSE SubSeq(mant, 1, dot - 1)
      frac == IF dot = 0 THEN "" ELSE SubSeq(mant, dot + 1, Len(mant))
      n    == DigitsValue(int \o frac)
  IN  IF n = 0 THEN Finite(0, 1)
      ELSE IF exp > MaxDoubleExponent
           THEN IF neg THEN MinusInfinity ELSE Infinity
           ELSE Finite((IF neg THEN -1 ELSE 1) * n * 10^exp, 10^Len(frac))

\* the value a JSON token denotes; the empty token is a member that is absent
ParseToken(tok) ==
  CASE tok = "" -> Undefined
    [] tok = "null" -> Null
    [] tok = "true" -> JsBoolean(TRUE)
    [] tok = "false" -> JsBoolean(FALSE)
    [] OTHER ->
         IF SubSeq(tok, 1, 1) = "\"" THEN JsString(SubSeq(tok, 2, Len(tok) - 1))
         ELSE IF SubSeq(tok, 1, 1) = "{" THEN JsObject(tok)
         ELSE JsNumber(ParseNumber(tok))

\* The token of member key in the compact text of an object, "" when the
\* object has no such member.  The objects of the model nest one level, hold
\* no escaped quote, and no member name occurs inside a string: a string
\* ends at the next quote, an object at the next brace, any other token at
\* the next comma or brace.
MemberToken(text, key) ==
  LET at == IndexOf(text, "\"" \o key \o "\":")
  IN  IF at = 0 THEN ""
      ELSE LET from == at + Len(key) + 3
               rest == SubSeq(text, from, Len(text))
               c    == SubSeq(rest, 1, 1)
               len  == IF c = "\"" THEN 1 + IndexOf(SubSeq(rest, 2, Len(rest)), "\"")
                       ELSE IF c = "{" THEN IndexOf(rest, "}")
                       ELSE (CHOOSE j \in 1..Len(rest) :
                               /\ SubSeq(rest, j, j) \in {",", "}"}
                               /\ \A i \in 1..(j - 1) : SubSeq(rest, i, i) \notin {",", "}"})
                            - 1
           IN  SubSeq(rest, 1, len)

\* v.key: the member of an object, undefined for any other value
Member(v, key) ==
  IF v.t = "object" THEN ParseToken(MemberToken(v.s, key)) ELSE Undefined

\* What fetchUsage returned, as a value: the parsed body of the response,
\* or, from axios, the body as a string when it is no JSON.
DataValue(data) == IF IsJson(data) THEN JsObject(data) ELSE JsString(data)

-----------------------------------------------------------------------------
(* clampPercent, formatLocal and safeErrorMessage (lines 520-533).         *)

Max(a, b) == IF a >= b THEN a ELSE b
Min(a, b) == IF a <= b THEN a ELSE b

\* Number.isFinite(n)
IsFinite(n) == n.k = "finite"

\* Math.round(n) for a finite n: the integer nearest to n, the upper one at
\* a tie, which is floor(n + 1/2)
MathRound(n) == (2 * n.n + n.d) \div (2 * n.d)

\* a fault of line 522: the fraction is cut off
clampPercent_Truncate(n) ==
  IF ~IsFinite(n) THEN 0
  ELSE Max(0, Min(100, n.n \div n.d))

\* lines 520-523
clampPercent(n) ==
  IF ~IsFinite(n) THEN 0
  ELSE Max(0, Min(100, MathRound(n)))

\* two decimal digits
TwoDigits(n) == IF n < 10 THEN "0" \o ToString(n) ELSE ToString(n)

\* A date: the fields of its time value in UTC.
DateFields(y, mo, d, h, mi, s) ==
  [y |-> y, mo |-> mo, d |-> d, h |-> h, mi |-> mi, s |-> s]

\* whether Date.parse reads the string as a timestamp: of the strings of
\* the model, those of the form YYYY-MM-DDTHH:MM:SSZ with fields in range
IsIsoTimestamp(s) ==
  /\ Len(s) = 20
  /\ \A i \in 1..20 :
       CASE i \in {5, 8} -> SubSeq(s, i, i) = "-"
         [] i = 11 -> SubSeq(s, i, i) = "T"
         [] i \in {14, 17} -> SubSeq(s, i, i) = ":"
         [] i = 20 -> SubSeq(s, i, i) = "Z"
         [] OTHER -> IsDigit(SubSeq(s, i, i))
  /\ DigitsValue(SubSeq(s, 6, 7)) \in 1..12
  /\ DigitsValue(SubSeq(s, 9, 10)) \in 1..31
  /\ DigitsValue(SubSeq(s, 12, 13)) \in 0..23
  /\ DigitsValue(SubSeq(s, 15, 16)) \in 0..59
  /\ DigitsValue(SubSeq(s, 18, 19)) \in 0..59

\* the date of a time value of less than a day, in milliseconds from the
\* epoch
DateOfMillis(ms) ==
  LET t == ms \div 1000
  IN  DateFields(1970, 1, 1, t \div 3600, (t \div 60) % 60, t % 60)

\* new Date(iso): None when getTime() is NaN
NewDate(iso) ==
  CASE iso.t = "string" /\ IsIsoTimestamp(iso.s) ->
         Some(DateFields(DigitsValue(SubSeq(iso.s, 1, 4)),
                         DigitsValue(SubSeq(iso.s, 6, 7)),
                         DigitsValue(SubSeq(iso.s, 9, 10)),
                         DigitsValue(SubSeq(iso.s, 12, 13)),
                         DigitsValue(SubSeq(iso.s, 15, 16)),
                         DigitsValue(SubSeq(iso.s, 18, 19))))
    [] iso.t = "number" /\ IsFinite(iso.num)
         /\ iso.num.n >= 0 /\ iso.num.n \div iso.num.d < 86400000 ->
         Some(DateOfMillis(iso.num.n \div iso.num.d))
    [] OTHER -> None

\* Date.prototype.toLocaleTimeString() in the locale en-US and the zone UTC
ToLocaleTimeString(d) ==
  ToString(IF d.h % 12 = 0 THEN 12 ELSE d.h % 12) \o ":" \o TwoDigits(d.mi)
    \o ":" \o TwoDigits(d.s) \o (IF d.h < 12 THEN " AM" ELSE " PM")

\* Date.prototype.toLocaleString() in the locale en-US and the zone UTC
ToLocaleString(d) ==
  ToString(d.mo) \o "/" \o ToString(d.d) \o "/" \o ToString(d.y) \o ", "
    \o ToLocaleTimeString(d)

\* String(v) of a template literal, for the values formatLocal may return
JsToString(v) ==
  CASE v.t = "string" -> v.s
    [] v.t = "boolean" -> v.s
    [] v.t = "object" -> "[object Object]"
    [] v.t = "number" ->
         IF v.num.k # "finite" THEN v.num.k ELSE ToString(v.num.n \div v.num.d)
    [] OTHER -> v.t

\* lines 525-528
formatLocal(iso) ==
  LET d == NewDate(iso)
  IN  IF d = None THEN JsToString(iso) ELSE ToLocaleString(d[1])

\* lines 530-533, for an error whose message is the string message
safeErrorMessage(message) == Substring0(message, ERROR_MESSAGE_MAX_LENGTH)

-----------------------------------------------------------------------------
(* The status bar item as refreshAndRender leaves it (lines 333-397).      *)

StatusBar(text, tooltip, command) ==
  [text |-> text, tooltip |-> tooltip, command |-> command]

\* lines 128-131: the item as activate creates it
InitialStatus ==
  StatusBar("$(pulse) Claude --", "Claude Usage: click to configure",
            "claudeUsage.configure")

\* lines 334-337
NotConfiguredStatus ==
  StatusBar("$(pulse) Claude --",
            "Claude Usage is not configured.\nClick to set organization_code and sessionKey.",
            "claudeUsage.configure")

\* lines 342-344
RefreshingStatus ==
  StatusBar("$(sync~spin) Claude ...", "Refreshing Claude usage...",
            "claudeUsage.refresh")

\* lines 350-352
UnexpectedShapeStatus ==
  StatusBar("$(warning) Claude ?",
            "Unexpected response shape from Claude usage endpoint.",
            "claudeUsage.refresh")

\* a fault of line 349: resets_at is not looked at
IsUnexpectedShape_NoResets(five) ==
  \/ ~JsTruthy(five)
  \/ Member(five, "utilization").t # "number"

\* line 349: the payload is not rendered as a percentage
IsUnexpectedShape(five) ==
  \/ ~JsTruthy(five)
  \/ Member(five, "utilization").t # "number"
  \/ ~JsTruthy(Member(five, "resets_at"))

\* line 363
DisplayValue(modeRead, used, left) ==
  IF modeRead = "left" THEN ToString(left) \o "% left" ELSE ToString(used) \o "% used"

\* a fault of lines 349-354: the return for an unexpected shape writes
\* nothing to the status bar
RenderData_KeepSpinner(data, modeRead, t) ==
  LET five == Member(DataValue(data), "five_hour")
  IN  IF IsUnexpectedShape(five) THEN RefreshingStatus
      ELSE LET used == clampPercent(Member(five, "utilization").num)
               left == clampPercent(Finite(100 - used, 1))
               resetsLocal == formatLocal(Member(five, "resets_at"))
               updatedAt == ToLocaleTimeString(DateOfMillis(t))
           IN  StatusBar(
                 "$(pulse) Claude " \o DisplayValue(modeRead, used, left),
                 "Resets at: " \o resetsLocal \o "\n"
                   \o "Last updated: " \o updatedAt \o "\n"
                   \o "Click to toggle between used/left\n"
                   \o "Use Command Palette (Ctrl+Shift+P) > \"Claude Usage: Edit organization_code\" or \"Edit sessionKey\"",
                 "claudeUsage.toggleMode")

\* Lines 348-372: the status after fetchUsage returned data, at the time t
\* of the clock, for the display mode read from the configuration.  ">"
\* stands for the arrow of line 370.
RenderData(data, modeRead, t) ==
  LET five == Member(DataValue(data), "five_hour")
  IN  IF IsUnexpectedShape(five) THEN UnexpectedShapeStatus
      ELSE LET used == clampPercent(Member(five, "utilization").num)
               left == clampPercent(Finite(100 - used, 1))
               resetsLocal == formatLocal(Member(five, "resets_at"))
               updatedAt == ToLocaleTimeString(DateOfMillis(t))
           IN  StatusBar(
                 "$(pulse) Claude " \o DisplayValue(modeRead, used, left),
                 "Resets at: " \o resetsLocal \o "\n"
                   \o "Last updated: " \o updatedAt \o "\n"
                   \o "Click to toggle between used/left\n"
                   \o "Use Command Palette (Ctrl+Shift+P) > \"Claude Usage: Edit organization_code\" or \"Edit sessionKey\"",
                 "claudeUsage.toggleMode")

\* lines 382-387; "??" stands for the two UTF-16 units of the magnifying
\* glass, ">" for an arrow
Troubleshooting403 ==
  "\n\n?? Troubleshooting HTTP 403:\n"
  \o "1. Verify sessionKey: Get it from browser DevTools > Application > Cookies > claude.ai\n"
  \o "2. Check organization_code: Should match your Claude organization\n"
  \o "3. SessionKey may be expired: Get a fresh one from an active browser session\n"
  \o "4. Try full cookie string: Copy entire Cookie header from Network tab\n"
  \o "5. Ensure you're logged into Claude.ai in your browser"

\* lines 373-397: the status after fetchUsage threw an error of that message
RenderError(message) ==
  LET errorMsg == safeErrorMessage(message)
      is403    == Includes(errorMsg, "403")
  IN  StatusBar("$(error) Claude ERR",
                "Failed to refresh Claude usage.\n\nError: " \o errorMsg
                  \o (IF is403 THEN Troubleshooting403 ELSE "")
                  \o "\n\nClick to reconfigure or use \"Claude Usage: Debug Info\" command",
                "claudeUsage.configure")

-----------------------------------------------------------------------------
(* Inputs of the model: what the callers supply and what the remote does.  *)

\* the invocations of the pipeline that may be in flight
NumProcs == 2
Procs == 1..NumProcs

\* the stored credential, already trimmed and non-empty (lines 331-333)
Credentials == {"sk-test-token", "sessionKey=sk-a; lang=en"}

\* responseHeaders["set-cookie"] of the undici priming response: absent, or
\* the array of Set-Cookie lines (a single string is one line, line 79)
SetCookieArrays ==
  { None,
    Some(<<"lang=en; Path=/">>),
    Some(<<"lang=en; Path=/", "__cf_bm=tokA; path=/; HttpOnly">>) }

\* response.headers.get("set-cookie") of the fetch priming response: null
\* or the Set-Cookie lines joined by ", "
SetCookieStrings ==
  { None,
    Some("lang=en; Path=/"),
    Some("lang=en; Path=/, __cf_bm=tokB; path=/; HttpOnly") }

\* messages of the errors the undici priming request rejects with
PrimeErrors == {"getaddrinfo ENOTFOUND claude.ai", "Connect Timeout Error"}

\* messages of the errors the fetch priming request rejects with
PrimeFetchErrors == {"fetch failed"}

OkBody ==
  "{\"five_hour\": {\"utilization\": 42.4, \"resets_at\": \"2025-01-01T00:00:00Z\"}}"
NotFoundJson == "{\"error\": \"not_found\"}"
NotFoundJsonId == "{\"error\": \"not_found\", \"request_id\": \"req_14031\"}"
ChallengeHtml == "<!DOCTYPE html><title>Just a moment...</title>"
NotFoundHtml == "<html>Not Found</html>"

Statuses == {200, 403, 404}
Bodies == {OkBody, NotFoundJson, NotFoundJsonId, ChallengeHtml, NotFoundHtml}

\* messages of the errors a usage request rejects with
NetworkErrors ==
  { "fetch failed",
    "Response does not match the HTTP/1.1 protocol (Invalid header value char)" }

RemoteBehaviours ==
  {Response(st, b) : st \in Statuses, b \in Bodies}
    \cup {Rejection(m) : m \in NetworkErrors}

\* how far the clock runs, and how long the pipeline may rest between two
\* invocations
MaxClock == 320000
\* how many invocations of the pipeline a behaviour holds
MaxRuns == 2
IdleGaps == {CF_BM_COOKIE_CACHE_TTL_MS - 2 * REQUEST_TIMEOUT_MS}

-----------------------------------------------------------------------------
(* State.                                                                  *)

VARIABLES
  clock,            \* Date.now()
  runs,             \* the invocations of fetchUsage begun so far
  cfBmCookie,       \* line 46: the cached cookie, None for null
  cfBmCookieExpiry, \* line 47
  pc,               \* per invocation: where it is suspended
  sessionKey,       \* per invocation: the credential it was called with
  now,              \* per invocation: the constant `now` of line 55
  timer,            \* per invocation: when the armed setTimeout fires
  cfBmLocal,        \* per invocation: what fetchCfBmCookie returned (407)
  cookieValue,      \* per invocation: the Cookie header of line 410
  tried,            \* per invocation: the methods invoked so far, in order
  lastError,        \* per invocation: line 474, None for null
  kinds,            \* per invocation: the kind of each failed method
  lastResp,         \* per invocation: what the remote did last
  primeLog,         \* per invocation: the priming requests and their ends
  result,           \* per invocation: what fetchUsage returned or threw
  cacheRead,        \* per invocation: what its cache check of line 56 saw
  cfWrite,          \* when the cached cookie was written, and by what
  fmtArg,           \* the raw string handed to formatSessionKeyCookie
  fmtRes,           \* the results of its successive applications
  status,           \* the status bar item: text, tooltip, command
  active,           \* activate has run and deactivate has not
  autoRefresh,      \* configuration claudeUsage.autoRefresh
  refreshSeconds,   \* configuration claudeUsage.refreshSeconds
  mode,             \* configuration claudeUsage.mode
  refreshTimer,     \* line 43: None, or the interval's delay and next firing
  events,           \* the events of the extension host handled so far
  lastTick,         \* when the interval last invoked the pipeline, -1 if never
  tickGap,          \* the time between its last two invocations, -1 if none
  call,             \* per invocation: the caller and the configuration read
  rank,             \* per invocation: its rank in the order of the calls
  starts,           \* the calls of refreshAndRender so far
  shown,            \* the invocation that wrote its outcome to the status last
  rndArg,           \* the payload handed to the rendering of lines 348-372
  pctArg,           \* the number handed to clampPercent
  pctRes,           \* what clampPercent returned, None before the call
  liveTimers        \* the intervals set by setInterval and not cleared

vars == <<clock, runs, cfBmCookie, cfBmCookieExpiry, pc, sessionKey, now, timer,
          cfBmLocal, cookieValue, tried, lastError, kinds, lastResp, primeLog,
          result, cacheRead, cfWrite, fmtArg, fmtRes, status, active,
          autoRefresh, refreshSeconds, mode, refreshTimer, events, lastTick,
          tickGap, call, rank, starts, shown, rndArg, pctArg, pctRes,
          liveTimers>>

cacheVars == <<cfBmCookie, cfBmCookieExpiry, cfWrite>>
fmtVars == <<fmtArg, fmtRes>>
cfgVars == <<autoRefresh, refreshSeconds, mode>>
tickVars == <<lastTick, tickGap>>
callVars == <<call, rank, starts>>
rndVars == <<rndArg, pctArg, pctRes>>
\* the state of the extension host outside fetchUsage
hostVars == <<status, active, cfgVars, refreshTimer, liveTimers, events,
              tickVars, callVars, shown, rndVars>>

NoTimer == -1
NoResult == [kind |-> "none", value |-> ""]
NoResp == [type |-> "none", status |-> 0, text |-> ""]
NoRead == [done |-> FALSE, hit |-> FALSE, at |-> 0, stored |-> FALSE,
           start |-> 0, written |-> 0, expiry |-> 0, value |-> None]
\* refreshAndRender is not running
NoCall == [by |-> "none", org |-> "", mode |-> ""]
\* no invocation has written its outcome yet
NoShown == [rank |-> 0, by |-> "none", kinds |-> <<>>,
            status |-> [text |-> "", tooltip |-> "", command |-> ""]]
\* before activate there is no status bar item
NoStatus == [text |-> "", tooltip |-> "", command |-> ""]

Init ==
  /\ clock = 0
  /\ runs = 0
  /\ cfBmCookie = None
  /\ cfBmCookieExpiry = 0
  /\ pc = [p \in Procs |-> "idle"]
  /\ sessionKey = [p \in Procs |-> ""]
  /\ now = [p \in Procs |-> 0]
  /\ timer = [p \in Procs |-> NoTimer]
  /\ cfBmLocal = [p \in Procs |-> None]
  /\ cookieValue = [p \in Procs |-> ""]
  /\ tried = [p \in Procs |-> <<>>]
  /\ lastError = [p \in Procs |-> None]
  /\ kinds = [p \in Procs |-> <<>>]
  /\ lastResp = [p \in Procs |-> NoResp]
  /\ primeLog = [p \in Procs |-> <<>>]
  /\ result = [p \in Procs |-> NoResult]
  /\ cacheRead = [p \in Procs |-> NoRead]
  /\ cfWrite = [start |-> 0, written |-> 0, value |-> None]
  /\ fmtArg = ""
  /\ fmtRes = <<>>
  /\ status = NoStatus
  /\ active = FALSE
  /\ autoRefresh = TRUE
  /\ refreshSeconds = 60
  /\ mode = "left"
  /\ refreshTimer = None
  /\ events = 0
  /\ lastTick = -1
  /\ tickGap = -1
  /\ call = [p \in Procs |-> NoCall]
  /\ rank = [p \in Procs |-> 0]
  /\ starts = 0
  /\ shown = NoShown
  /\ rndArg = ""
  /\ pctArg = Finite(0, 1)
  /\ pctRes = None
  /\ liveTimers = 0

-----------------------------------------------------------------------------
(* fetchCfBmCookie (lines 53-125) and the head of fetchUsage (400-413).    *)

Prime(via, end, message) == [via |-> via, end |-> end, message |-> message]

\* the last entry of the priming log replaced by its end
EndLast(log, end, message) ==
  [log EXCEPT ![Len(log)] = Prime(log[Len(log)].via, end, message)]

\* fetchCfBmCookie(key) has returned cfBm: lines 404-413 build the Cookie header
\* and the loop of line 476 invokes the first method.
Dispatch(p, key, cfBm) ==
  /\ cfBmLocal' = [cfBmLocal EXCEPT ![p] = cfBm]
  /\ cookieValue' = [cookieValue EXCEPT ![p] =
        getStandardHeaders(
          CombineCookies(cfBm, formatSessionKeyCookie(key))).Cookie]
  /\ timer' = [timer EXCEPT ![p] = NoTimer]
  /\ tried' = [tried EXCEPT ![p] = <<1>>]
  /\ pc' = [pc EXCEPT ![p] = "usage"]

\* a fault of lines 84 and 115: the expiry is counted from the write
StoreCookie_FromWrite(p, value) ==
  /\ cfBmCookie' = Some("__cf_bm=" \o value)
  /\ cfBmCookieExpiry' = clock + CF_BM_COOKIE_CACHE_TTL_MS
  /\ cfWrite' = [start |-> now[p], written |-> clock,
                 value |-> Some("__cf_bm=" \o value)]

\* a fault of lines 83-84: an expiry later than the new one is kept
StoreCookie_KeepLater(p, value) ==
  /\ cfBmCookie' = Some("__cf_bm=" \o value)
  /\ cfBmCookieExpiry' = Max(cfBmCookieExpiry, now[p] + CF_BM_COOKIE_CACHE_TTL_MS)
  /\ cfWrite' = [start |-> now[p], written |-> clock,
                 value |-> Some("__cf_bm=" \o value)]

\* lines 83-85 and 112-114: store the cookie found and return it
StoreCookie(p, value) ==
  /\ cfBmCookie' = Some("__cf_bm=" \o value)
  /\ cfBmCookieExpiry' = now[p] + CF_BM_COOKIE_CACHE_TTL_MS
  /\ cfWrite' = [start |-> now[p], written |-> clock,
                 value |-> Some("__cf_bm=" \o value)]

\* a fault of line 56: the expiry is not looked at
CacheHit_Always(cookie, expiry, t) == Truthy(cookie)

\* a fault of line 56: the cookie is still returned at its expiry
CacheHit_AtExpiry(cookie, expiry, t) == Truthy(cookie) /\ t <= expiry

\* line 56: the cached cookie is still valid at time t
CacheHit(cookie, expiry, t) == Truthy(cookie) /\ t < expiry

\* fetchUsage(org, key) is called: lines 404-407 and 55-74.  A cache hit
\* returns at once; otherwise the undici priming request is issued and
\* raced against a timer.
FetchUsageCall(p, key) ==
  /\ runs < MaxRuns
  /\ runs' = runs + 1
  /\ sessionKey' = [sessionKey EXCEPT ![p] = key]
  /\ now' = [now EXCEPT ![p] = clock]
  /\ cacheRead' = [cacheRead EXCEPT ![p] =
        [done |-> TRUE, hit |-> CacheHit(cfBmCookie, cfBmCookieExpiry, clock),
         at |-> clock, stored |-> Truthy(cfBmCookie),
         start |-> cfWrite.start, written |-> cfWrite.written,
         expiry |-> cfBmCookieExpiry, value |-> cfWrite.value]]
  /\ IF CacheHit(cfBmCookie, cfBmCookieExpiry, clock)
     THEN /\ Dispatch(p, key, cfBmCookie)
          /\ UNCHANGED primeLog
     ELSE /\ primeLog' = [primeLog EXCEPT ![p] = <<Prime("undici", "pending", "")>>]
          /\ timer' = [timer EXCEPT ![p] = clock + REQUEST_TIMEOUT_MS]
          /\ pc' = [pc EXCEPT ![p] = "cf_undici"]
          /\ UNCHANGED <<cfBmLocal, cookieValue, tried>>
  /\ UNCHANGED <<clock, cacheVars, lastError, kinds, lastResp, result, fmtVars>>

\* fetchUsage called on its own
FetchUsageBegin(p, key) ==
  /\ pc[p] = "idle"
  /\ FetchUsageCall(p, key)
  /\ UNCHANGED hostVars

\* the undici priming request wins the race with a response (lines 74-88)
CfUndiciResponse(p, setCookieHeader) ==
  /\ pc[p] = "cf_undici"
  /\ clock <= timer[p]
  /\ primeLog' = [primeLog EXCEPT ![p] = EndLast(@, "response", "")]
  /\ LET found == IF setCookieHeader = None THEN None
                  ELSE FirstCfBm(setCookieHeader[1])
     IN  IF found # None
         THEN /\ StoreCookie(p, found[1])
              /\ Dispatch(p, sessionKey[p], cfBmCookie')
         ELSE /\ Dispatch(p, sessionKey[p], None)
              /\ UNCHANGED cacheVars
  /\ UNCHANGED <<clock, runs, sessionKey, now, cacheRead, lastError, kinds, lastResp, result,
                 fmtVars, hostVars>>

\* a fault of line 91: no error is taken for the timeout
IsTimeoutError_Never(message) == FALSE

\* line 91: e?.message?.includes("Timeout")
IsTimeoutError(message) == Includes(message, "Timeout")

\* lines 89-122 entered with the error e of the undici attempt: a message
\* with "Timeout" returns null, any other issues the fetch priming request
\* under an AbortController timer
CfUndiciCatch(p, end, message) ==
  /\ IF ~IsTimeoutError(message)
     THEN /\ primeLog' = [primeLog EXCEPT ![p] =
                Append(EndLast(@, end, message), Prime("fetch", "pending", ""))]
          /\ timer' = [timer EXCEPT ![p] = clock + REQUEST_TIMEOUT_MS]
          /\ pc' = [pc EXCEPT ![p] = "cf_fetch"]
          /\ UNCHANGED <<cfBmLocal, cookieValue, tried>>
     ELSE /\ primeLog' = [primeLog EXCEPT ![p] = EndLast(@, end, message)]
          /\ Dispatch(p, sessionKey[p], None)
  /\ UNCHANGED <<clock, runs, cacheVars, sessionKey, now, cacheRead, lastError, kinds, lastResp,
                 result, fmtVars, hostVars>>

\* the timer of line 66 fires first
CfUndiciTimeout(p) ==
  /\ pc[p] = "cf_undici"
  /\ clock >= timer[p]
  /\ CfUndiciCatch(p, "timeout", "Timeout fetching __cf_bm cookie")

\* the undici priming request rejects
CfUndiciError(p, message) ==
  /\ pc[p] = "cf_undici"
  /\ clock <= timer[p]
  /\ CfUndiciCatch(p, "error", message)

\* the fetch priming request answers (lines 103-117)
CfFetchResponse(p, setCookieHeaders) ==
  /\ pc[p] = "cf_fetch"
  /\ clock <= timer[p]
  /\ primeLog' = [primeLog EXCEPT ![p] = EndLast(@, "response", "")]
  /\ LET found == IF Truthy(setCookieHeaders)
                  THEN FirstCfBm(SplitCommaTrim(setCookieHeaders[1]))
                  ELSE None
     IN  IF found # None
         THEN /\ StoreCookie(p, found[1])
              /\ Dispatch(p, sessionKey[p], cfBmCookie')
         ELSE /\ Dispatch(p, sessionKey[p], None)
              /\ UNCHANGED cacheVars
  /\ UNCHANGED <<clock, runs, sessionKey, now, cacheRead, lastError, kinds, lastResp, result,
                 fmtVars, hostVars>>

\* the fetch priming request rejects, or its controller aborts it when the
\* timer of line 94 fires: lines 118-120 log it and line 124 returns null
CfFetchError(p, message) ==
  /\ pc[p] = "cf_fetch"
  /\ clock <= timer[p]
  /\ primeLog' = [primeLog EXCEPT ![p] = EndLast(@, "error", message)]
  /\ Dispatch(p, sessionKey[p], None)
  /\ UNCHANGED <<clock, runs, cacheVars, sessionKey, now, cacheRead, lastError, kinds, lastResp,
                 result, fmtVars, hostVars>>

CfFetchAbort(p) ==
  /\ pc[p] = "cf_fetch"
  /\ clock >= timer[p]
  /\ primeLog' = [primeLog EXCEPT ![p] =
        EndLast(@, "abort", "This operation was aborted")]
  /\ Dispatch(p, sessionKey[p], None)
  /\ UNCHANGED <<clock, runs, cacheVars, sessionKey, now, cacheRead, lastError, kinds, lastResp,
                 result, fmtVars, hostVars>>

-----------------------------------------------------------------------------
(* The loop over the methods and the final error (lines 474-517).          *)

Success(data) == [kind |-> "success", value |-> data]
Failure(message) == [kind |-> "error", value |-> message]

\* The kind of a failed attempt in the taxonomy of the error handling
\* design, from what the remote did (r) and the message thrown: a bot
\* challenge when the status is 403 or a challenge marker is in its text, an
\* HTTP error for another status outside 2xx, else a transport error.
HasChallengeMarker(text) ==
  \/ Includes(text, "Just a moment")
  \/ Includes(text, "cf-browser-verification")
  \/ Includes(text, "challenge-platform")

FailureKind(r, message) ==
  IF \/ r.type = "response" /\ r.status = 403
     \/ HasChallengeMarker(message)
  THEN "BotChallenge"
  ELSE IF r.type = "response" /\ ~IsOk(r.status) THEN "HttpError"
  ELSE "TransportError"

\* a fault of the loop: the method that failed is tried again
NextMethod_Again(k) == k

\* the loop of line 476 takes the methods in the order of the array
NextMethod(k) == k + 1

\* The pending method settles: the remote did r and the method returned or
\* threw o.  No timer bounds this await.
UsageSettle(p, r) ==
  /\ pc[p] = "usage"
  /\ lastResp' = [lastResp EXCEPT ![p] = r]
  /\ \E o \in RunMethod(tried[p][Len(tried[p])], r) :
       LET k == tried[p][Len(tried[p])]
       IN  IF o.ok
           THEN /\ result' = [result EXCEPT ![p] = Success(o.value)]
                /\ pc' = [pc EXCEPT ![p] = "done"]
                /\ UNCHANGED <<tried, lastError, kinds>>
           ELSE /\ lastError' = [lastError EXCEPT ![p] = Some(o.value)]
                /\ kinds' = [kinds EXCEPT ![p] = Append(@, FailureKind(r, o.value))]
                /\ IF TryNextMethod(o.value)
                   THEN IF k < NumMethods
                        THEN /\ tried' = [tried EXCEPT ![p] = Append(@, NextMethod(k))]
                             /\ UNCHANGED <<pc, result>>
                        ELSE /\ result' = [result EXCEPT ![p] =
                                   Failure(ExhaustedMessage(lastError'[p]))]
                             /\ pc' = [pc EXCEPT ![p] = "done"]
                             /\ UNCHANGED tried
                   ELSE /\ result' = [result EXCEPT ![p] = Failure(o.value)]
                        /\ pc' = [pc EXCEPT ![p] = "done"]
                        /\ UNCHANGED tried
  /\ UNCHANGED <<clock, runs, cacheVars, sessionKey, now, timer, cfBmLocal,
                 cookieValue, primeLog, cacheRead, fmtVars, hostVars>>

\* the record of an invocation that has ended is cleared
ClearRecord(p) ==
  /\ pc' = [pc EXCEPT ![p] = "idle"]
  /\ sessionKey' = [sessionKey EXCEPT ![p] = ""]
  /\ now' = [now EXCEPT ![p] = 0]
  /\ cfBmLocal' = [cfBmLocal EXCEPT ![p] = None]
  /\ cookieValue' = [cookieValue EXCEPT ![p] = ""]
  /\ cacheRead' = [cacheRead EXCEPT ![p] = NoRead]
  /\ tried' = [tried EXCEPT ![p] = <<>>]
  /\ lastError' = [lastError EXCEPT ![p] = None]
  /\ kinds' = [kinds EXCEPT ![p] = <<>>]
  /\ lastResp' = [lastResp EXCEPT ![p] = NoResp]
  /\ primeLog' = [primeLog EXCEPT ![p] = <<>>]
  /\ result' = [result EXCEPT ![p] = NoResult]
  /\ UNCHANGED <<clock, runs, cacheVars, timer, fmtVars>>

\* the caller of fetchUsage has consumed the outcome
Finish(p) ==
  /\ pc[p] = "done"
  /\ ClearRecord(p)
  /\ UNCHANGED hostVars

\* the moments at which a timer fires next: the timers of the priming
\* requests and the interval of line 283
ArmedTimers ==
  {timer[p] : p \in {q \in Procs : timer[q] # NoTimer}}
    \cup (IF refreshTimer = None THEN {} ELSE {refreshTimer[1].due})

\* time passes up to the moment the earliest armed timer fires
TimerTick ==
  /\ ArmedTimers # {}
  /\ \A t \in ArmedTimers : clock < t
  /\ clock' = CHOOSE t \in ArmedTimers : \A u \in ArmedTimers : t <= u
  /\ UNCHANGED <<runs, cacheVars, pc, sessionKey, now, timer, cfBmLocal,
                 cookieValue, tried, lastError, kinds, lastResp, primeLog,
                 result, cacheRead, fmtVars, hostVars>>

\* time passes between two invocations, no further than the next firing
\* of a timer
IdleTick(d) ==
  /\ \A p \in Procs : pc[p] = "idle"
  /\ clock + d <= MaxClock
  /\ \A t \in ArmedTimers : clock + d <= t
  /\ clock' = clock + d
  /\ UNCHANGED <<runs, cacheVars, pc, sessionKey, now, timer, cfBmLocal,
                 cookieValue, tried, lastError, kinds, lastResp, primeLog,
                 result, cacheRead, fmtVars, hostVars>>

Step(p) ==
  \/ \E key \in Credentials : FetchUsageBegin(p, key)
  \/ \E h \in SetCookieArrays : CfUndiciResponse(p, h)
  \/ CfUndiciTimeout(p)
  \/ \E m \in PrimeErrors : CfUndiciError(p, m)
  \/ \E h \in SetCookieStrings : CfFetchResponse(p, h)
  \/ \E m \in PrimeFetchErrors : CfFetchError(p, m)
  \/ CfFetchAbort(p)
  \/ \E r \in RemoteBehaviours : UsageSettle(p, r)
  \/ Finish(p)

\* one invocation at a time: the timer-driven refreshes of a session
Next ==
  \/ Step(1)
  \/ TimerTick
  \/ \E d \in IdleGaps : IdleTick(d)

Spec == Init /\ [][Next]_vars

-----------------------------------------------------------------------------
(* Properties of the request dispatcher.                                   *)

Last(seq) == seq[Len(seq)]

\* C1: the methods are invoked strictly in the order fetch, undici, axios,
\* one at a time and none twice; a method is started only after every
\* earlier one has failed, and a success ends the invocation with the
\* payload of the method that succeeded.
C1_StrictOrder ==
  \A p \in Procs :
    /\ Len(tried[p]) <= NumMethods
    /\ \A i \in 1..Len(tried[p]) : tried[p][i] = i
    /\ pc[p] = "usage" => Len(kinds[p]) = Len(tried[p]) - 1
    /\ result[p].kind = "success" =>
         /\ Len(kinds[p]) = Len(tried[p]) - 1
         /\ Returned(result[p].value) \in RunMethod(Last(tried[p]), lastResp[p])
    /\ result[p].kind = "error" => Len(kinds[p]) = Len(tried[p])

\* two bot challenges, then the third method succeeds
C1_Witness ==
  /\ pc[1] = "done"
  /\ kinds[1] = <<"BotChallenge", "BotChallenge">>
  /\ tried[1] = <<1, 2, 3>>
  /\ result[1].kind = "success"

\* C2: a response with a status outside 2xx other than 403 and no challenge
\* marker in its body ends the invocation at once with that HTTP failure,
\* whatever the method and whatever else the body holds.
C2_HttpErrorImmediate ==
  \A p \in Procs :
    LET r == lastResp[p]
    IN  ( /\ r.type = "response"
          /\ ~IsOk(r.status)
          /\ r.status # 403
          /\ ~HasChallengeMarker(r.text) )
        => /\ pc[p] = "done"
           /\ result[p].kind = "error"
           /\ result[p].value = lastError[p][1]
           /\ Includes(result[p].value, "HTTP " \o ToString(r.status))

\* C3: when the three methods all fail with a bot challenge, the failure
\* returned holds the remediation block and is not the bare error.
C3_RemediationBlock ==
  \A p \in Procs :
    (pc[p] = "done" /\ kinds[p] = <<"BotChallenge", "BotChallenge", "BotChallenge">>)
    => /\ result[p].kind = "error"
       /\ Includes(result[p].value, CloudflareHelp)
       /\ result[p].value # lastError[p][1]

\* the three methods each got a 403
C3_Witness ==
  /\ pc[1] = "done"
  /\ kinds[1] = <<"BotChallenge", "BotChallenge", "BotChallenge">>
  /\ lastResp[1].type = "response" /\ lastResp[1].status = 403

\* C4: a failure of kind BotChallenge or TransportError reaches the caller
\* only after the three methods have been tried.
C4_RecoveredLocally ==
  \A p \in Procs :
    (result[p].kind = "error" /\ Last(kinds[p]) \in {"BotChallenge", "TransportError"})
    => Len(tried[p]) = NumMethods

\* C5: the priming step never ends the invocation: whatever its outcome,
\* the first method is invoked next, and its Cookie header is the formatted
\* credential alone when no cookie was obtained.
C5_PrimingNeverFails ==
  \A p \in Procs :
    /\ pc[p] \in {"cf_undici", "cf_fetch"} => result[p] = NoResult /\ tried[p] = <<>>
    /\ (primeLog[p] # <<>> /\ Last(primeLog[p]).end # "pending")
         => pc[p] \in {"usage", "done"}
    /\ pc[p] \in {"usage", "done"} =>
         /\ tried[p] # <<>> /\ tried[p][1] = 1
         /\ cfBmLocal[p] = None =>
              cookieValue[p] = formatSessionKeyCookie(sessionKey[p])
         /\ cfBmLocal[p] # None =>
              cookieValue[p] = cfBmLocal[p][1] \o "; "
                                 \o formatSessionKeyCookie(sessionKey[p])

\* both priming strategies failed and the first method is pending
C5_Witness ==
  /\ pc[1] = "usage"
  /\ Len(primeLog[1]) = 2
  /\ primeLog[1][2].end = "abort"
  /\ cfBmLocal[1] = None
  /\ cookieValue[1] = "sessionKey=sk-test-token"

-----------------------------------------------------------------------------
(* Properties of the cookie cache and of its acquisition.                  *)

\* C6: a cookie written at time t0 is returned by every read before
\* t0 + 5 min and by none from then on.
C6_TtlFromWrite ==
  \A p \in Procs :
    (cacheRead[p].done /\ cacheRead[p].stored)
    => (cacheRead[p].hit <=>
          cacheRead[p].at < cacheRead[p].written + CF_BM_COOKIE_CACHE_TTL_MS)

\* C6, amended: the five minutes run from the start of the acquisition that
\* wrote the cookie, which is no later than the write; a cookie is never
\* returned at or after its expiry.
C6_TtlFromStart ==
  /\ Truthy(cfBmCookie) =>
       /\ cfBmCookieExpiry = cfWrite.start + CF_BM_COOKIE_CACHE_TTL_MS
       /\ cfWrite.start <= cfWrite.written
  /\ \A p \in Procs :
       cacheRead[p].done =>
         /\ ~cacheRead[p].stored => ~cacheRead[p].hit
         /\ cacheRead[p].stored =>
              (cacheRead[p].hit <=>
                 cacheRead[p].at < cacheRead[p].start + CF_BM_COOKIE_CACHE_TTL_MS)
         /\ cacheRead[p].hit =>
              cacheRead[p].at < cacheRead[p].written + CF_BM_COOKIE_CACHE_TTL_MS

\* a read less than five minutes after the write finds the cookie expired
C6_Witness ==
  /\ cacheRead[1].done /\ cacheRead[1].stored /\ ~cacheRead[1].hit
  /\ cacheRead[1].at = cacheRead[1].start + CF_BM_COOKIE_CACHE_TTL_MS
  /\ cacheRead[1].at < cacheRead[1].written + CF_BM_COOKIE_CACHE_TTL_MS

\* C7: every pending network attempt is raced against a timer that fires
\* within 10 s.
C7_EveryAttemptBounded ==
  \A p \in Procs :
    pc[p] \in {"cf_undici", "cf_fetch", "usage"}
    => timer[p] # NoTimer /\ timer[p] <= clock + REQUEST_TIMEOUT_MS

\* C8: the fetch priming request is issued if and only if the undici one
\* failed otherwise than by the 10 s timer.
C8_FallbackUnlessTimer ==
  \A p \in Procs :
    (primeLog[p] # <<>> /\ primeLog[p][1].end # "pending")
    => (Len(primeLog[p]) = 2 <=> primeLog[p][1].end = "error")

\* C8, amended: the fetch priming request is issued, once, if and only if
\* the undici one failed with a message that does not hold "Timeout"; the
\* 10 s timer and a response are never followed by it.
C8_FallbackUnlessTimeoutText ==
  \A p \in Procs :
    /\ Len(primeLog[p]) <= 2
    /\ \A i \in 1..Len(primeLog[p]) :
         primeLog[p][i].via = (IF i = 1 THEN "undici" ELSE "fetch")
    /\ (primeLog[p] # <<>> /\ primeLog[p][1].end # "pending")
       => /\ Len(primeLog[p]) = 2 <=>
               /\ primeLog[p][1].end = "error"
               /\ ~Includes(primeLog[p][1].message, "Timeout")
          /\ primeLog[p][1].end \in {"timeout", "response"} => Len(primeLog[p]) = 1

\* the undici request failed on a name lookup and the fetch one answered
C8_Witness ==
  /\ Len(primeLog[1]) = 2
  /\ primeLog[1][1].end = "error"
  /\ primeLog[1][1].message = "getaddrinfo ENOTFOUND claude.ai"
  /\ primeLog[1][2].end = "response"

-----------------------------------------------------------------------------
(* Specification of the formatter alone: the raw credential ranges over    *)
(* every string of at most MaxLen characters of FormatAlphabet, and the    *)
(* formatter is applied to it and then to its own result.                  *)

FormatAlphabet == {" ", "=", ";", "a"}

RECURSIVE StringsUpTo(_)
StringsUpTo(n) ==
  IF n = 0 THEN {""}
  ELSE LET S == StringsUpTo(n - 1)
       IN  S \cup {s \o c : s \in S, c \in FormatAlphabet}

RawStrings == StringsUpTo(MaxLen)

InitFormat ==
  /\ Init!1 /\ Init!2 /\ Init!3 /\ Init!4 /\ Init!5 /\ Init!6 /\ Init!7
  /\ Init!8 /\ Init!9 /\ Init!10 /\ Init!11 /\ Init!12 /\ Init!13 /\ Init!14
  /\ Init!15 /\ Init!16 /\ Init!17 /\ Init!18
  /\ fmtArg \in RawStrings
  /\ fmtRes = <<>>
  /\ Init!21 /\ Init!22 /\ Init!23 /\ Init!24 /\ Init!25 /\ Init!26 /\ Init!27
  /\ Init!28 /\ Init!29 /\ Init!30 /\ Init!31 /\ Init!32 /\ Init!33 /\ Init!34
  /\ Init!35 /\ Init!36 /\ Init!37

ApplyFormat ==
  /\ Len(fmtRes) < MaxApply
  /\ fmtRes' = Append(fmtRes,
        formatSessionKeyCookie(IF fmtRes = <<>> THEN fmtArg
                               ELSE fmtRes[Len(fmtRes)]))
  /\ UNCHANGED <<clock, runs, cacheVars, pc, sessionKey, now, timer, cfBmLocal,
                 cookieValue, tried, lastError, kinds, lastResp, primeLog,
                 result, cacheRead, fmtArg, hostVars>>

NextFormat == ApplyFormat

SpecFormat == InitFormat /\ [][NextFormat]_vars

-----------------------------------------------------------------------------
(* Properties of the credential formatter.                                 *)

\* the argument of the i-th application
FormatArg(i) == IF i = 1 THEN fmtArg ELSE fmtRes[i - 1]

\* t is s without its leading and trailing white space
IsTrimOf(t, s) ==
  /\ Len(t) > 0 => /\ ~IsWhiteSpace(SubSeq(t, 1, 1))
                   /\ ~IsWhiteSpace(SubSeq(t, Len(t), Len(t)))
  /\ \E i \in 0..(Len(s) - Len(t)) :
       /\ SubSeq(s, i + 1, i + Len(t)) = t
       /\ \A j \in (1..i) \cup ((i + Len(t) + 1)..Len(s)) :
            IsWhiteSpace(SubSeq(s, j, j))

\* a bare token: no ';' and at most one '='
IsBareToken(t) ==
  /\ \A j \in 1..Len(t) : SubSeq(t, j, j) # ";"
  /\ \A j, k \in 1..Len(t) :
       (SubSeq(t, j, j) = "=" /\ SubSeq(t, k, k) = "=") => j = k

\* C9: formatting a formatted credential changes nothing.
C9_Idempotent ==
  \A i \in 2..Len(fmtRes) : fmtRes[i] = fmtRes[i - 1]

\* C9, amended: formatting a formatted credential changes nothing when the
\* trimmed input holds a ';' or an '='; a bare token without '=' is wrapped
\* once more.
C9_IdempotentWithEquals ==
  \A i \in 2..Len(fmtRes) :
    LET t == Trim(FormatArg(i - 1))
    IN  IF Includes(t, ";") \/ Includes(t, "=")
        THEN fmtRes[i] = fmtRes[i - 1]
        ELSE fmtRes[i] = "sessionKey=" \o fmtRes[i - 1]

\* a token with one '=' formatted twice
C9_Witness ==
  /\ fmtArg = " a=a"
  /\ Len(fmtRes) = 2
  /\ fmtRes[1] = "sessionKey=a=a"
  /\ fmtRes[2] = fmtRes[1]

\* C10: a bare token is trimmed and wrapped as sessionKey=<token>, any
\* other string is trimmed and passed through, and a non-empty input gives
\* a non-empty result.
C10_FormatContract ==
  \A i \in 1..Len(fmtRes) :
    \E t \in {SubSeq(FormatArg(i), a, b) :
                a \in 1..(Len(FormatArg(i)) + 1), b \in 0..Len(FormatArg(i))} :
      /\ IsTrimOf(t, FormatArg(i))
      /\ IsBareToken(t) => fmtRes[i] = "sessionKey=" \o t
      /\ ~IsBareToken(t) => fmtRes[i] = t
      /\ FormatArg(i) # "" => fmtRes[i] # ""

\* a padded token with one '=' is wrapped
C10_Witness ==
  /\ fmtArg = " a=a "
  /\ fmtRes # <<>>
  /\ fmtRes[1] = "sessionKey=a=a"

-----------------------------------------------------------------------------
(* Specification of the rendering alone: the payload ranges over objects   *)
(* with every combination of the member tokens below, the display mode     *)
(* over its two values, and the argument of clampPercent over numbers of   *)
(* every kind; each function is applied once.                              *)

\* tokens of five_hour.utilization; "" is an absent member
UtilizationTokens ==
  {"", "null", "\"42\"", "0", "42.4", "42.5", "99.5", "100", "150.7", "-3",
   "1e999", "-1e999"}

\* tokens of five_hour.resets_at
ResetsAtTokens ==
  {"", "null", "\"\"", "\"2025-01-01T13:05:09Z\"", "\"soon\"", "1700"}

\* the compact text of an object with the members given that are present
ObjectText(members) ==
  LET present == SelectSeq(members, LAMBDA m : m[2] # "")
      Item(i) == (IF i > 1 THEN "," ELSE "") \o "\"" \o present[i][1] \o "\":"
                   \o present[i][2]
      Join[i \in 0..Len(present)] == IF i = 0 THEN "" ELSE Join[i - 1] \o Item(i)
  IN  "{" \o Join[Len(present)] \o "}"

PayloadOf(u, r) ==
  ObjectText(<< <<"five_hour", ObjectText(<< <<"utilization", u>>, <<"resets_at", r>> >>)>> >>)

\* what fetchUsage may return for a 2xx response
Payloads ==
  {PayloadOf(u, r) : u \in UtilizationTokens, r \in ResetsAtTokens}
    \cup { "{}", "{\"five_hour\":null}", "{\"five_hour\":5}",
           "{\"five_hour\":\"busy\"}", "{\"seven_day\":{\"utilization\":3}}",
           "<html>ok</html>" }

Modes == {"left", "used"}

\* the largest magnitude of the numbers handed to clampPercent, in tenths
MaxTenths == 1507

ClampInputs ==
  {NaN, Infinity, MinusInfinity}
    \cup {Finite(n, 10) : n \in {-MaxTenths, -15, -5, -4, 0, 4, 5, 424, 425, 995,
                                 1000, 1004, 1005, MaxTenths}}

InitRender ==
  /\ Init!1 /\ Init!2 /\ Init!3 /\ Init!4 /\ Init!5 /\ Init!6 /\ Init!7
  /\ Init!8 /\ Init!9 /\ Init!10 /\ Init!11 /\ Init!12 /\ Init!13 /\ Init!14
  /\ Init!15 /\ Init!16 /\ Init!17 /\ Init!18 /\ Init!19 /\ Init!20
  /\ Init!21 /\ Init!22 /\ Init!23 /\ Init!24
  /\ mode \in Modes
  /\ Init!26 /\ Init!27 /\ Init!28 /\ Init!29 /\ Init!30 /\ Init!31 /\ Init!32
  /\ Init!33
  /\ rndArg \in Payloads
  /\ pctArg \in ClampInputs
  /\ Init!36 /\ Init!37

\* lines 348-372 applied to the payload
ApplyRender ==
  /\ status = NoStatus
  /\ status' = RenderData(rndArg, mode, clock)
  /\ UNCHANGED <<clock, runs, cacheVars, pc, sessionKey, now, timer, cfBmLocal,
                 cookieValue, tried, lastError, kinds, lastResp, primeLog,
                 result, cacheRead, fmtVars, active, cfgVars, refreshTimer, liveTimers,
                 events, tickVars, callVars, shown, rndVars>>

\* clampPercent applied to the number
ApplyClamp ==
  /\ pctRes = None
  /\ pctRes' = Some(clampPercent(pctArg))
  /\ UNCHANGED <<clock, runs, cacheVars, pc, sessionKey, now, timer, cfBmLocal,
                 cookieValue, tried, lastError, kinds, lastResp, primeLog,
                 result, cacheRead, fmtVars, status, active, cfgVars,
                 refreshTimer, liveTimers, events, tickVars, callVars, shown,
                 rndArg, pctArg>>

NextRender == ApplyRender \/ ApplyClamp

SpecRender == InitRender /\ [][NextRender]_vars

-----------------------------------------------------------------------------
(* Properties of the rendering.                                            *)

\* the members of the payload the rendering reads
RndFive == Member(DataValue(rndArg), "five_hour")
RndUtilization == Member(RndFive, "utilization")
RndResetsAt == Member(RndFive, "resets_at")

\* the status shows a usage percentage
ShowsPercentage(s) == s.command = "claudeUsage.toggleMode"

RoundRange == (-(MaxTenths \div 10) - 1)..((MaxTenths \div 10) + 1)

\* r is the integer nearest to the finite number n, the upper one at a tie
IsNearestInteger(r, n) ==
  /\ 2 * r * n.d <= 2 * n.n + n.d
  /\ 2 * r * n.d > 2 * n.n - n.d

\* c is n rounded and clamped into 0..100, or 0 for a non-finite n
IsClampOf(c, n) ==
  /\ c \in 0..100
  /\ ~IsFinite(n) => c = 0
  /\ IsFinite(n) =>
       \E r \in RoundRange :
         /\ IsNearestInteger(r, n)
         /\ r < 0 => c = 0
         /\ r > 100 => c = 100
         /\ r \in 0..100 => c = r

\* C15: clampPercent(n) is round(n) clamped into 0..100 for a finite n and
\* 0 for any other; a rendered payload shows used = clampPercent(utilization)
\* or left = 100 - used, by the display mode.
C15_ClampPercent ==
  /\ pctRes # None => IsClampOf(pctRes[1], pctArg)
  /\ ShowsPercentage(status) =>
       \E used \in 0..100 :
         /\ IsClampOf(used, RndUtilization.num)
         /\ mode = "left" =>
              status.text = "$(pulse) Claude " \o ToString(100 - used) \o "% left"
         /\ mode # "left" =>
              status.text = "$(pulse) Claude " \o ToString(used) \o "% used"

\* utilization 42.4 is shown as 58% left, and 42.5 rounds up to 43
C15_Witness ==
  /\ rndArg = PayloadOf("42.4", "\"2025-01-01T13:05:09Z\"")
  /\ mode = "left"
  /\ status.text = "$(pulse) Claude 58% left"
  /\ pctArg = Finite(425, 10)
  /\ pctRes = Some(43)

-----------------------------------------------------------------------------
(* refreshAndRender (lines 328-398), the refresh timer (272-293) and the   *)
(* events of the extension host that call them (127-270).                  *)

\* what fetchUsage reads and writes, apart from pc and the clock
pipeVars == <<runs, cacheVars, sessionKey, now, timer, cfBmLocal, cookieValue,
              tried, lastError, kinds, lastResp, primeLog, result, cacheRead>>

\* how many events of the extension host a behaviour holds
MaxEvents == 4

\* the value of claudeUsage.organizationCode, trimmed, and those of the
\* stored secret
ORG == "org-1"

\* the values claudeUsage.refreshSeconds is set to
RefreshSecondsValues == {5, 60, 2147484}

\* the longest delay of a Node.js timer, in milliseconds
TIMEOUT_MAX == 2147483647

\* setInterval(callback, seconds * 1000): the delay of the interval.  A
\* delay beyond TIMEOUT_MAX does not fit the timer and is set to 1.
SetIntervalDelay(seconds) ==
  IF seconds > TIMEOUT_MAX \div 1000 THEN 1 ELSE seconds * 1000

\* stopAutoRefresh (lines 288-293): the live intervals after it, n before
LiveAfterStop(handle, n) == IF handle # None THEN n - 1 ELSE n

\* startAutoRefresh (lines 272-286): the live intervals after it, n before
LiveAfterStart(enabled, handle, n) ==
  LiveAfterStop(handle, n) + (IF enabled THEN 1 ELSE 0)

\* startAutoRefresh (lines 272-286) at time t: the value of refreshTimer
\* after it; stopAutoRefresh (lines 288-293) has cleared the interval before
StartAutoRefresh(enabled, seconds, t) ==
  IF ~enabled THEN None
  ELSE Some([delay |-> SetIntervalDelay(Max(30, seconds)),
             due |-> t + SetIntervalDelay(Max(30, seconds))])

\* an invocation takes the first record that is free
FirstFree(p) == pc[p] = "idle" /\ \A q \in 1..(p - 1) : pc[q] # "idle"

\* refreshAndRender is called (lines 329-331): it reads the configuration
\* and awaits the stored secret
RefreshCall(p, by, org, modeRead) ==
  /\ FirstFree(p)
  /\ pc' = [pc EXCEPT ![p] = "secrets"]
  /\ call' = [call EXCEPT ![p] = [by |-> by, org |-> org, mode |-> modeRead]]
  /\ starts' = starts + 1
  /\ rank' = [rank EXCEPT ![p] = starts + 1]

\* refreshAndRender returns to its caller; the configure command goes on to
\* startAutoRefresh (line 158)
EndCall(p) ==
  /\ call' = [call EXCEPT ![p] = NoCall]
  /\ rank' = [rank EXCEPT ![p] = 0]
  /\ refreshTimer' = IF call[p].by = "configure"
                     THEN StartAutoRefresh(autoRefresh, refreshSeconds, clock)
                     ELSE refreshTimer
  /\ liveTimers' = IF call[p].by = "configure"
                   THEN LiveAfterStart(autoRefresh, refreshTimer, liveTimers)
                   ELSE liveTimers
  /\ UNCHANGED starts

\* the outcome an invocation writes to the status bar
Shown(p, s) ==
  [rank |-> rank[p], by |-> call[p].by, kinds |-> kinds[p], status |-> s]

\* activate (lines 127-266): the status bar item is created, the timer is
\* started and the first refresh is called
Activate(p, org) ==
  /\ ~active /\ status = NoStatus
  /\ events < MaxEvents
  /\ events' = events + 1
  /\ active' = TRUE
  /\ status' = InitialStatus
  /\ refreshTimer' = StartAutoRefresh(autoRefresh, refreshSeconds, clock)
  /\ liveTimers' = LiveAfterStart(autoRefresh, refreshTimer, liveTimers)
  /\ RefreshCall(p, "activate", org, mode)
  /\ UNCHANGED <<clock, pipeVars, fmtVars, cfgVars, tickVars, shown, rndVars>>

\* onDidChangeConfiguration for one of the four settings (lines 248-259),
\* after which the configuration holds the values given
ConfigChange(p, org, enabled, seconds, newMode) ==
  /\ active
  /\ events < MaxEvents
  /\ events' = events + 1
  /\ autoRefresh' = enabled
  /\ refreshSeconds' = seconds
  /\ mode' = newMode
  /\ refreshTimer' = StartAutoRefresh(enabled, seconds, clock)
  /\ liveTimers' = LiveAfterStart(enabled, refreshTimer, liveTimers)
  /\ RefreshCall(p, "config", org, newMode)
  /\ UNCHANGED <<clock, pipeVars, fmtVars, status, active, tickVars, shown, rndVars>>

\* the configure command with its menu cancelled (lines 154-158), after
\* ensureConfigured has returned
ConfigureCancelled(p, org) ==
  /\ active
  /\ events < MaxEvents
  /\ events' = events + 1
  /\ RefreshCall(p, "configure", org, mode)
  /\ UNCHANGED <<clock, pipeVars, fmtVars, status, active, cfgVars,
                 refreshTimer, liveTimers,
                 tickVars, shown, rndVars>>

\* the refresh command (lines 162-164)
ManualRefresh(p, org) ==
  /\ active
  /\ events < MaxEvents
  /\ events' = events + 1
  /\ RefreshCall(p, "refresh", org, mode)
  /\ UNCHANGED <<clock, pipeVars, fmtVars, status, active, cfgVars,
                 refreshTimer, liveTimers,
                 tickVars, shown, rndVars>>

\* deactivate, or the disposal of the subscriptions (lines 262, 268-270)
Deactivate ==
  /\ active
  /\ events < MaxEvents
  /\ events' = events + 1
  /\ active' = FALSE
  /\ refreshTimer' = None
  /\ liveTimers' = LiveAfterStop(refreshTimer, liveTimers)
  /\ UNCHANGED <<clock, pc, pipeVars, fmtVars, status, cfgVars, tickVars,
                 callVars, shown, rndVars>>

\* the interval fires (lines 283-285)
IntervalFire(p, org) ==
  /\ refreshTimer # None
  /\ clock = refreshTimer[1].due
  /\ events < MaxEvents
  /\ events' = events + 1
  /\ refreshTimer' = Some([refreshTimer[1] EXCEPT !.due = clock + refreshTimer[1].delay])
  /\ UNCHANGED liveTimers
  /\ lastTick' = clock
  /\ tickGap' = IF lastTick < 0 THEN tickGap ELSE clock - lastTick
  /\ RefreshCall(p, "timer", org, mode)
  /\ UNCHANGED <<clock, pipeVars, fmtVars, status, active, cfgVars, shown, rndVars>>

\* the stored secret arrives (line 331): without an organization or a
\* secret the item shows "not configured" and the invocation returns (lines
\* 333-339); otherwise the spinner is shown and fetchUsage is called (lines
\* 342-346)
RefreshResume(p, key) ==
  /\ pc[p] = "secrets"
  /\ IF call[p].org = "" \/ key = ""
     THEN /\ status' = NotConfiguredStatus
          /\ shown' = Shown(p, NotConfiguredStatus)
          /\ pc' = [pc EXCEPT ![p] = "idle"]
          /\ EndCall(p)
          /\ UNCHANGED <<clock, pipeVars, fmtVars>>
     ELSE /\ status' = RefreshingStatus
          /\ FetchUsageCall(p, key)
          /\ UNCHANGED <<callVars, refreshTimer, liveTimers, shown>>
  /\ UNCHANGED <<active, cfgVars, events, tickVars, rndVars>>

\* a fault of refreshAndRender: an invocation that is not the newest one
\* leaves the status as it is
RenderDone_NewestOnly(p) ==
  /\ pc[p] = "done"
  /\ LET s == IF result[p].kind = "success"
              THEN RenderData(result[p].value, call[p].mode, clock)
              ELSE RenderError(result[p].value)
     IN  /\ status' = IF rank[p] = starts THEN s ELSE status
         /\ shown' = Shown(p, s)
  /\ ClearRecord(p)
  /\ EndCall(p)
  /\ UNCHANGED <<active, cfgVars, events, tickVars, rndVars>>

\* fetchUsage has returned or thrown: the outcome is written to the status
\* bar (lines 348-397) and refreshAndRender returns
RenderDone(p) ==
  /\ pc[p] = "done"
  /\ LET s == IF result[p].kind = "success"
              THEN RenderData(result[p].value, call[p].mode, clock)
              ELSE RenderError(result[p].value)
     IN  /\ status' = s
         /\ shown' = Shown(p, s)
  /\ ClearRecord(p)
  /\ EndCall(p)
  /\ UNCHANGED <<active, cfgVars, events, tickVars, rndVars>>

-----------------------------------------------------------------------------
(* Specification of the refresh timer: the events of the extension host    *)
(* in any order, no secret stored, so that every refresh returns at line   *)
(* 338.                                                                    *)

\* how long the host rests between two events
HostGaps == {20000}

\* time passes between two events of an activated extension
HostRest(d) ==
  /\ active
  /\ IdleTick(d)

NextTimer ==
  \/ \E p \in Procs : Activate(p, ORG)
  \/ \E p \in Procs, enabled \in BOOLEAN, seconds \in RefreshSecondsValues :
       ConfigChange(p, ORG, enabled, seconds, mode)
  \/ \E p \in Procs : ConfigureCancelled(p, ORG)
  \/ Deactivate
  \/ \E p \in Procs : IntervalFire(p, ORG)
  \/ \E p \in Procs : RefreshResume(p, "")
  \/ TimerTick
  \/ \E d \in HostGaps : HostRest(d)

SpecTimer == Init /\ [][NextTimer]_vars

-----------------------------------------------------------------------------
(* Properties of the refresh timer.                                        *)

\* C12: two consecutive invocations of the pipeline by the timer are at
\* least 30 seconds apart, whatever claudeUsage.refreshSeconds is set to.
C12_MinimumPeriod == tickGap # -1 => tickGap >= 30 * 1000

-----------------------------------------------------------------------------
(* Specification of one refresh at a time with responses of every length:  *)
(* the extension is activated with autoRefresh off, and the refresh        *)
(* command calls refreshAndRender while no other invocation is running.    *)
(* The priming request is answered without a cookie or times out.          *)

\* n copies of s
RECURSIVE Repeat(_, _)
Repeat(s, n) ==
  IF n = 0 THEN ""
  ELSE IF n = 1 THEN s
  ELSE Repeat(s, n \div 2) \o Repeat(s, n - n \div 2)

\* a challenge page longer than the excerpt of a failure
LongChallengeHtml ==
  "<!DOCTYPE html><html><head><title>Just a moment...</title>"
    \o Repeat("<meta http-equiv=\"refresh\" content=\"390\">", 6)
    \o "<script src=\"/cdn-cgi/challenge-platform/h/b/orchestrate/chl_page/v1\"></script></head></html>"

\* the message of a transport error that lists the addresses it tried
LongNetworkError ==
  "connect ETIMEDOUT" \o Repeat(" 2606:4700:0000:0000:0000:0000:6812:0001:443,", 9)

RefreshCredentials == {"", "sk-test-token"}
RefreshSetCookieArrays == {None}
RefreshStatuses == {403, 503}
RefreshBodies == {ChallengeHtml, LongChallengeHtml}
RefreshNetworkErrors == {LongNetworkError}

RefreshBehaviours ==
  {Response(st, b) : st \in RefreshStatuses, b \in RefreshBodies}
    \cup {Response(200, OkBody)}
    \cup {Rejection(m) : m \in RefreshNetworkErrors}

InitRefresh ==
  /\ Init!1 /\ Init!2 /\ Init!3 /\ Init!4 /\ Init!5 /\ Init!6 /\ Init!7
  /\ Init!8 /\ Init!9 /\ Init!10 /\ Init!11 /\ Init!12 /\ Init!13 /\ Init!14
  /\ Init!15 /\ Init!16 /\ Init!17 /\ Init!18 /\ Init!19 /\ Init!20
  /\ Init!21 /\ Init!22
  /\ autoRefresh = FALSE
  /\ Init!24 /\ Init!25 /\ Init!26 /\ Init!27 /\ Init!28 /\ Init!29 /\ Init!30
  /\ Init!31 /\ Init!32 /\ Init!33 /\ Init!34 /\ Init!35 /\ Init!36 /\ Init!37

NextRefresh ==
  \/ Activate(1, ORG)
  \/ ManualRefresh(1, ORG)
  \/ \E key \in RefreshCredentials : RefreshResume(1, key)
  \/ \E h \in RefreshSetCookieArrays : CfUndiciResponse(1, h)
  \/ CfUndiciTimeout(1)
  \/ \E r \in RefreshBehaviours : UsageSettle(1, r)
  \/ RenderDone(1)
  \/ TimerTick

SpecRefresh == InitRefresh /\ [][NextRefresh]_vars

-----------------------------------------------------------------------------
(* Properties of the failure shown and returned.                           *)

\* the tooltip holds at least the heading of one of the two remediation
\* texts (lines 506 and 382)
RemediationShown(s) ==
  \/ Includes(s.tooltip, "Cloudflare bot protection detected.")
  \/ Includes(s.tooltip, "Troubleshooting HTTP 403:")

\* C13: when the three methods all failed with a bot challenge, the text
\* shown to the user holds remediation steps, whatever the status and the
\* length of the challenge responses.
C13_RemediationShown ==
  shown.kinds = <<"BotChallenge", "BotChallenge", "BotChallenge">>
  => /\ shown.status.text = "$(error) Claude ERR"
     /\ RemediationShown(shown.status)

\* the length the truncations of lines 435, 455, 470 and 514 and the
\* remediation block allow a failure built from an HTTP failure to have
FailureLengthBound ==
  Len("HTTP 000: ") + ERROR_MESSAGE_MAX_LENGTH
    + Max(Len(CloudflareHelp), ERROR_DETAILS_MAX_LENGTH)

\* C14: the message of the failure fetchUsage returns is no longer than a
\* bound that depends neither on the length of the response body nor on
\* that of the transport error.
C14_BoundedMessage ==
  \A p \in Procs :
    result[p].kind = "error" => Len(result[p].value) <= FailureLengthBound

-----------------------------------------------------------------------------
(* Further properties of the request dispatcher and of the cookie cache,   *)
(* under Spec.                                                             *)

\* message is "HTTP <status>: " followed by at most 200 characters
IsHttpFailureText(message, code) ==
  LET prefix == "HTTP " \o ToString(code) \o ": "
  IN  /\ Len(message) >= Len(prefix)
      /\ SubSeq(message, 1, Len(prefix)) = prefix
      /\ Len(message) <= Len(prefix) + ERROR_MESSAGE_MAX_LENGTH

\* C16: whatever the method and the format of the body, a response with a
\* status outside 2xx makes the method fail with "HTTP <status>: " and an
\* excerpt of the body of at most 200 characters, and a 2xx response with a
\* parseable body makes it succeed.
C16_HttpFailureText ==
  \A p \in Procs :
    lastResp[p].type = "response" =>
      IF IsOk(lastResp[p].status)
      THEN IsJson(lastResp[p].text) => result[p].kind = "success"
      ELSE /\ lastError[p] # None
           /\ IsHttpFailureText(lastError[p][1], lastResp[p].status)

\* the text holds one of the markers of a bot challenge (lines 504-505)
MatchesMarkers(text) ==
  \/ Includes(text, "Just a moment")
  \/ Includes(text, "cf-browser-verification")
  \/ Includes(text, "challenge-platform")
  \/ Includes(text, "403")

\* the third method has failed and fetchUsage has thrown
AllMethodsFailed(p) ==
  /\ result[p].kind = "error"
  /\ Len(tried[p]) = NumMethods
  /\ Len(kinds[p]) = NumMethods

\* the failure built from the error text last: the remediation block after
\* it if it matches the markers, else its first 500 characters
SynthesizedFrom(last) ==
  last \o (IF MatchesMarkers(last) THEN CloudflareHelp
           ELSE Substring0(last, ERROR_DETAILS_MAX_LENGTH))

\* C17: when the three methods have failed, the failure returned is built
\* from the error of the third one only: that error followed by the
\* remediation block if its text matches the markers and by its first 500
\* characters if not.
C17_SynthesizedFromLast ==
  \A p \in Procs :
    AllMethodsFailed(p) =>
      /\ Thrown(lastError[p][1]) \in RunMethod(NumMethods, lastResp[p])
      /\ result[p].value = SynthesizedFrom(lastError[p][1])

\* C17, amended: when the three methods have failed, the failure returned
\* is built from the error of the third one only.  If that error is one the
\* loop goes on from (its text matches the markers or does not hold "HTTP"),
\* it is followed by the remediation block if and only if its text matches
\* the markers, and else by its first 500 characters; any other error of
\* the third method is returned as it is.  Two bot challenges and a
\* transport error without "403" in its text give no remediation block.
C17_LastErrorOnly ==
  \A p \in Procs :
    AllMethodsFailed(p) =>
      LET last == lastError[p][1]
      IN  /\ Thrown(last) \in RunMethod(NumMethods, lastResp[p])
          /\ (MatchesMarkers(last) \/ ~Includes(last, "HTTP"))
               => result[p].value = SynthesizedFrom(last)
          /\ ~(MatchesMarkers(last) \/ ~Includes(last, "HTTP"))
               => result[p].value = last
          /\ Includes(result[p].value, CloudflareHelp) <=> MatchesMarkers(last)
          /\ ( /\ kinds[p] = <<"BotChallenge", "BotChallenge", "TransportError">>
               /\ ~Includes(last, "403") )
             => ~Includes(result[p].value, CloudflareHelp)

\* two bot challenges, then the third method rejects with "fetch failed"
C17_Witness ==
  /\ pc[1] = "done"
  /\ kinds[1] = <<"BotChallenge", "BotChallenge", "TransportError">>
  /\ lastError[1] = Some("fetch failed")
  /\ result[1] = Failure("fetch failedfetch failed")

\* C18: fetchCfBmCookie issues a priming request if and only if the cache
\* holds no unexpired cookie when it is checked: a hit returns the cached
\* cookie without a request, a miss is followed by the undici priming
\* request, and the cache never holds an absent result.
C18_PrimeIffMiss ==
  /\ cfBmCookie # None =>
       /\ Len(cfBmCookie[1]) > Len("__cf_bm=")
       /\ SubSeq(cfBmCookie[1], 1, Len("__cf_bm=")) = "__cf_bm="
  /\ \A p \in Procs :
       cacheRead[p].done =>
         LET unexpired == cacheRead[p].stored /\ cacheRead[p].at < cacheRead[p].expiry
         IN  /\ primeLog[p] = <<>> <=> unexpired
             /\ unexpired =>
                  /\ pc[p] \in {"usage", "done"}
                  /\ cfBmLocal[p] = cfBmCookie
                  /\ cfBmLocal[p] # None
             /\ ~unexpired => primeLog[p][1].via = "undici"

\* an invocation after one that obtained no cookie primes again, and one
\* within the five minutes of a cookie does not
C18_Witness ==
  /\ runs = 2
  /\ cacheRead[1].done /\ cacheRead[1].stored
  /\ cacheRead[1].at > 0 /\ cacheRead[1].at < cacheRead[1].expiry
  /\ primeLog[1] = <<>>
  /\ pc[1] = "usage"
  /\ cookieValue[1] = "__cf_bm=tokA; sessionKey=sk-test-token"

-----------------------------------------------------------------------------
(* Specification of overlapping refreshes: the refresh command and the     *)
(* interval call refreshAndRender while earlier invocations are still at   *)
(* one of their awaits, and the steps of the invocations interleave.       *)

\* responseHeaders["set-cookie"] of the priming responses
OverlapSetCookies ==
  { Some(<<"__cf_bm=tokA; path=/; HttpOnly">>),
    Some(<<"__cf_bm=tokB; path=/; HttpOnly">>) }

\* response.headers.get("set-cookie") of the fetch priming response
OverlapSetCookieStrings == {Some("lang=en; Path=/, __cf_bm=tokB; path=/; HttpOnly")}

\* the outcomes of a usage request: a usage payload, a payload without
\* five_hour, a failure
OverlapBehaviours ==
  { Response(200, OkBody), Response(200, "{\"five_hour\":null}"),
    Response(404, NotFoundJson) }

NextOverlap ==
  \/ \E p \in Procs : Activate(p, ORG)
  \/ \E p \in Procs : ManualRefresh(p, ORG)
  \/ \E p \in Procs : IntervalFire(p, ORG)
  \/ \E p \in Procs : RefreshResume(p, "sk-test-token")
  \/ \E p \in Procs, h \in OverlapSetCookies : CfUndiciResponse(p, h)
  \/ \E p \in Procs : CfUndiciTimeout(p)
  \/ \E p \in Procs : CfUndiciError(p, "getaddrinfo ENOTFOUND claude.ai")
  \/ \E p \in Procs, h \in OverlapSetCookieStrings : CfFetchResponse(p, h)
  \/ \E p \in Procs, r \in OverlapBehaviours : UsageSettle(p, r)
  \/ \E p \in Procs : RenderDone(p)
  \/ TimerTick

SpecOverlap == Init /\ [][NextOverlap]_vars

-----------------------------------------------------------------------------
(* Properties of overlapping refreshes.                                    *)

\* the invocation p is awaiting a priming request
IsPriming(p) == pc[p] \in {"cf_undici", "cf_fetch"}

\* a step in which p stores the cookie it obtained, with the expiry counted
\* from its own start, and returns it
WritesSlot(p) ==
  /\ IsPriming(p)
  /\ pc'[p] = "usage"
  /\ cfBmCookie' # None
  /\ cfBmCookie' = cfBmLocal'[p]
  /\ cfBmCookieExpiry' = now[p] + CF_BM_COOKIE_CACHE_TTL_MS
  /\ cfWrite'.value = cfBmCookie'
  /\ cfWrite'.start = now[p]
  /\ cfWrite'.written = clock

\* the cache holds the value and the expiry of its most recent write, and an
\* invocation whose check of the cache was a hit holds the value of the write
\* it found there
SlotWhole ==
  /\ cfBmCookie = cfWrite.value
  /\ cfBmCookie # None =>
       cfBmCookieExpiry = cfWrite.start + CF_BM_COOKIE_CACHE_TTL_MS
  /\ \A p \in Procs :
       (cacheRead[p].done /\ primeLog[p] = <<>>) =>
         /\ cacheRead[p].value # None
         /\ pc[p] \in {"usage", "done"} => cfBmLocal[p] = cacheRead[p].value
         /\ cacheRead[p].expiry = cacheRead[p].start + CF_BM_COOKIE_CACHE_TTL_MS
         /\ cacheRead[p].at < cacheRead[p].expiry

\* C19: under every interleaving of overlapping invocations the cache is
\* never torn: every change of the cached value or of its expiry is the
\* write of both by one invocation, the cache holds the pair of the most
\* recent write, and a cache hit returns a value that a write stored.
C19_NeverTorn ==
  /\ []SlotWhole
  /\ [][ (cfBmCookie' # cfBmCookie \/ cfBmCookieExpiry' # cfBmCookieExpiry)
           => \E p \in Procs : WritesSlot(p) ]_vars

\* two overlapping invocations have both primed and obtained different
\* cookies; the one that started first wrote last, so the cache holds its
\* cookie and its expiry
C19_Witness ==
  /\ pc[1] = "usage" /\ pc[2] = "usage"
  /\ primeLog[1] # <<>> /\ primeLog[2] # <<>>
  /\ cfBmLocal[1] # None /\ cfBmLocal[2] # None
  /\ cfBmLocal[1] # cfBmLocal[2]
  /\ now[1] < now[2]
  /\ cfBmCookie = cfBmLocal[1]
  /\ cfBmCookieExpiry = now[1] + CF_BM_COOKIE_CACHE_TTL_MS

\* no invocation of refreshAndRender is running
AllCompleted == \A p \in Procs : pc[p] = "idle"

\* what the invocation p writes to the status bar when fetchUsage has
\* returned or thrown
OutcomeOf(p) ==
  IF result[p].kind = "success"
  THEN RenderData(result[p].value, call[p].mode, clock)
  ELSE RenderError(result[p].value)

\* C20: an invocation superseded by a newer one still completes and writes
\* its outcome, and once every invocation has completed the status shown is
\* the outcome of the one that completed last, whatever its rank in the
\* order of the calls.
C20_LastCompletedWins ==
  /\ [](AllCompleted /\ starts > 0 => shown.rank > 0 /\ status = shown.status)
  /\ [][ \A p \in Procs :
           (pc[p] = "done" /\ pc'[p] = "idle") =>
             /\ status' = OutcomeOf(p)
             /\ shown'.rank = rank[p] ]_vars

\* every invocation has completed, and the one that completed last and is
\* shown, a failure, is not the one that started last
C20_Witness ==
  /\ AllCompleted
  /\ shown.rank > 0 /\ shown.rank < starts
  /\ shown.kinds # <<>>
  /\ status = shown.status
  /\ status.text = "$(error) Claude ERR"

\* C21: the expiry stored with a cookie is the time at which the invocation
\* that obtained it started, before its priming request, plus five minutes;
\* so the expiry is at most the time of the write plus five minutes, and no
\* check of the cache returns a cookie five minutes or more after the
\* priming response that brought it arrived.
C21_ExpiryFromStart ==
  /\ [](cfBmCookie # None =>
          cfBmCookieExpiry <= cfWrite.written + CF_BM_COOKIE_CACHE_TTL_MS)
  /\ [](\A p \in Procs :
          (cacheRead[p].done /\ primeLog[p] = <<>>) =>
            cacheRead[p].at < cacheRead[p].written + CF_BM_COOKIE_CACHE_TTL_MS)
  /\ [][ \A p \in Procs :
           (IsPriming(p) /\ pc'[p] = "usage" /\ cfBmLocal'[p] # None) =>
             /\ primeLog[p] # <<>>
             /\ now[p] = cacheRead[p].at
             /\ now[p] <= clock
             /\ cfBmCookieExpiry' = now[p] + CF_BM_COOKIE_CACHE_TTL_MS ]_vars

\* the interval's invocation is handed, a minute after the activation, the
\* cookie that the first invocation stored five seconds after it started
C21_Witness ==
  /\ cacheRead[1].done /\ primeLog[1] = <<>>
  /\ pc[1] = "usage"
  /\ call[1].by = "timer"
  /\ cfBmLocal[1] # None
  /\ cacheRead[1].start < cacheRead[1].written
  /\ cacheRead[1].written < cacheRead[1].at
  /\ cacheRead[1].expiry = cacheRead[1].start + CF_BM_COOKIE_CACHE_TTL_MS

\* the status is one of the three an invocation ends with after the
\* spinner: a usage value, the unexpected shape, an error
IsTerminalStatus(s) ==
  \/ /\ Len(s.text) > Len("$(pulse) Claude ") + Len("% left")
     /\ SubSeq(s.text, 1, Len("$(pulse) Claude ")) = "$(pulse) Claude "
     /\ SubSeq(s.text, Len(s.text) - 5, Len(s.text)) \in {"% left", "% used"}
     /\ s.command = "claudeUsage.toggleMode"
  \/ s = UnexpectedShapeStatus
  \/ s.text = "$(error) Claude ERR" /\ s.command = "claudeUsage.configure"

\* the invocation p is between its spinner and its return
AfterSpinner(p) == pc[p] \in {"cf_undici", "cf_fetch", "usage", "done"}

\* C22: whenever no invocation of refreshAndRender is running the status
\* bar does not show the spinner: an invocation that has set the spinner
\* writes the status once more, when fetchUsage has returned or thrown, and
\* what it writes is a usage value, the unexpected shape or an error.
C22_SpinnerNeverLeft ==
  /\ [](AllCompleted => status # RefreshingStatus)
  /\ [][ \A p \in Procs :
           /\ (pc[p] = "secrets" /\ AfterSpinner(p)') => status' = RefreshingStatus
           /\ (AfterSpinner(p) /\ pc'[p] = "idle") =>
                 pc[p] = "done" /\ IsTerminalStatus(status')
           /\ (AfterSpinner(p) /\ AfterSpinner(p)' /\ pc'[p] # pc[p]
                 /\ \A q \in Procs \ {p} : pc'[q] = pc[q]) =>
                 status' = status ]_vars

\* two overlapping invocations have set the spinner and completed; the one
\* called first completed last, with a payload without five_hour
C22_Witness ==
  /\ AllCompleted
  /\ starts >= 2
  /\ shown.rank > 0 /\ shown.rank < starts
  /\ status = UnexpectedShapeStatus

-----------------------------------------------------------------------------
(* Properties of the intervals, under SpecTimer.                           *)

\* C23: after any sequence of activations, configuration changes, configure
\* commands and deactivations at most one interval is live, it is the one
\* refreshTimer holds, none is live while claudeUsage.autoRefresh is off,
\* and none is live once deactivate has run.
C23_AtMostOneTimer ==
  /\ liveTimers <= 1
  /\ liveTimers = 1 <=> refreshTimer # None
  /\ ~autoRefresh => liveTimers = 0
  /\ (events > 0 /\ ~active) => liveTimers = 0

====
